---- MODULE Spec2Model ----
(***************************************************************************)
(* A model of the xrdcp copy tool of the pilot (pilot/copytool/xrdcp.py):  *)
(* the output parser, the single-file stage operation and the two batch    *)
(* drivers copy_in and copy_out, with the trace report they update and     *)
(* send.  Text (the copy tool's output) is a sequence of one-character     *)
(* strings; an optional value is None or Some(v).                          *)
(***************************************************************************)
EXTENDS Integers, Sequences, FiniteSets, TLC

\* ------------------------------------------------------------------ bounds

\* The largest number of files handed to one copy_in / copy_out call.
MaxFiles == 3

\* The largest file size a timeout is estimated for, in units of 10^6 bytes.
MaxMB == 5251

\* The largest number of LFNs, and of scopes, the stage-in script is given.
MaxLfns == 3

\* ------------------------------------------------------------ optional values

None == <<>>
Some(v) == <<v>>

\* ----------------------------------------------------------------------- text

Digits == {"0", "1", "2", "3", "4", "5", "6", "7", "8", "9"}
Lower == {"a", "b", "c", "d", "e", "f", "g", "h", "i", "j", "k", "l", "m",
          "n", "o", "p", "q", "r", "s", "t", "u", "v", "w", "x", "y", "z"}
Upper == {"A", "B", "C", "D", "E", "F", "G", "H", "I", "J", "K", "L", "M",
          "N", "O", "P", "Q", "R", "S", "T", "U", "V", "W", "X", "Y", "Z"}
\* the class [a-zA-Z0-9] of the pattern
Alnum == Lower \cup Upper \cup Digits
\* the characters the pattern's \S does not match
Whitespace == {" ", "\t", "\n", "\r", "\f"}

Min(S) == CHOOSE x \in S : \A y \in S : x <= y

\* p occurs in s at position i
SubstrAt(s, p, i) ==
    /\ i >= 1
    /\ i + Len(p) - 1 <= Len(s)
    /\ SubSeq(s, i, i + Len(p) - 1) = p

\* Python's  p in s
Contains(s, p) == \E i \in 1..(Len(s) + 1) : SubstrAt(s, p, i)

\* The last index of the longest run of characters satisfying the class test
\* that starts at i (i - 1 when the run is empty): a greedy  X+  of the pattern.
RunEndIn(s, i, class) ==
    LET bad == {j \in i..Len(s) : s[j] \notin class}
    IN  IF bad = {} THEN Len(s) ELSE Min(bad) - 1

RunEndNotIn(s, i, class) ==
    LET bad == {j \in i..Len(s) : s[j] \in class}
    IN  IF bad = {} THEN Len(s) ELSE Min(bad) - 1

T_md5 == <<"m", "d", "5">>
T_adler32 == <<"a", "d", "l", "e", "r", "3", "2">>
T_xrootd == <<"x", "r", "o", "o", "t", "d">>
T_XRootD == <<"X", "R", "o", "o", "t", "D">>

\* ---------------------------------------------------- get_file_info_from_output

DigitValue(c) ==
    CASE c = "0" -> 0 [] c = "1" -> 1 [] c = "2" -> 2 [] c = "3" -> 3
      [] c = "4" -> 4 [] c = "5" -> 5 [] c = "6" -> 6 [] c = "7" -> 7
      [] c = "8" -> 8 [] c = "9" -> 9

\* int() of a non-empty string of decimal digits
RECURSIVE int(_)
int(s) ==
    IF Len(s) = 0 THEN 0
    ELSE 10 * int(SubSeq(s, 1, Len(s) - 1)) + DigitValue(s[Len(s)])

RECURSIVE Zeros(_)
Zeros(n) == IF n <= 0 THEN <<>> ELSE <<"0">> \o Zeros(n - 1)

\* The checksum returned as it was matched, without the padding.
zfill_NoPadding(s, width) == s

\* str.zfill: pad on the left with zeros up to the width, after a leading sign
zfill(s, width) ==
    IF Len(s) >= width THEN s
    ELSE IF Len(s) > 0 /\ s[1] \in {"+", "-"}
         THEN <<s[1]>> \o Zeros(width - Len(s)) \o SubSeq(s, 2, Len(s))
         ELSE Zeros(width - Len(s)) \o s

\* The pattern
\*   (?P<type>md5|adler32):\ (?P<checksum>[a-zA-Z0-9]+)\ \S+\ (?P<filesize>[0-9]+)
\* matched at position i with the given type: the groups, or None.  Every
\* repetition is followed by a character outside its class, so the greedy run
\* is the only way to match.
PatternAt(s, i, type) ==
    LET head == type \o <<":", " ">>
        c1 == i + Len(head)
        c2 == RunEndIn(s, c1, Alnum)
        w1 == c2 + 2
        w2 == RunEndNotIn(s, w1, Whitespace)
        f1 == w2 + 2
        f2 == RunEndIn(s, f1, Digits)
    IN  IF /\ SubstrAt(s, head, i)
           /\ c2 >= c1
           /\ c2 + 1 <= Len(s) /\ s[c2 + 1] = " "
           /\ w2 >= w1
           /\ w2 + 1 <= Len(s) /\ s[w2 + 1] = " "
           /\ f2 >= f1
        THEN Some([type |-> type,
                   checksum |-> SubSeq(s, c1, c2),
                   filesize |-> SubSeq(s, f1, f2)])
        ELSE None

MatchAt(s, i) ==
    IF PatternAt(s, i, T_md5) # None THEN PatternAt(s, i, T_md5)
    ELSE PatternAt(s, i, T_adler32)

\* re.search: the match at the leftmost position that has one, or None
re_search(s) ==
    LET hits == {i \in 1..Len(s) : MatchAt(s, i) # None}
    IN  IF hits = {} THEN None ELSE MatchAt(s, Min(hits))

\* The tuple the function returns: two elements on the early returns, three
\* after the pattern was tried.
get_file_info_from_output(output) ==
    IF output = <<>> THEN <<None, None>>
    ELSE IF ~(\/ Contains(output, T_xrootd)
              \/ Contains(output, T_XRootD)
              \/ Contains(output, T_adler32))
    THEN <<None, None>>
    ELSE LET m == re_search(output)
         IN  IF m # None
             THEN <<Some(int(m[1].filesize)),
                    Some(zfill(m[1].checksum, 8)),
                    Some(m[1].type)>>
             ELSE <<None, None, None>>

\* ------------------------------------------------------------------ errors

\* ErrorCodes of pilot.common.errorcodes used by the copy tool
NOLOCALSPACE == 1098
STAGEINFAILED == 1099
STAGEOUTFAILED == 1137
UNKNOWNEXCEPTION == 1301

\* Every exception value has the same fields; site is the place that
\* constructed the object, so that two objects built at different places differ.
NoError == [type |-> "none", message |-> "", code |-> 0, state |-> "", site |-> ""]

\* PilotException(message, code=code, state=state): a missing or zero code
\* becomes UNKNOWNEXCEPTION.
PilotException(message, code, state, site) ==
    [type |-> "PilotException", message |-> message,
     code |-> IF code = 0 THEN UNKNOWNEXCEPTION ELSE code,
     state |-> state, site |-> site]

\* The ValueError of unpacking a two-element tuple into three names.
ValueError(site) ==
    [type |-> "ValueError", message |-> "need more than 2 values to unpack",
     code |-> 0, state |-> "", site |-> site]

isinstance(error, class) ==
    IF class = "Exception" THEN error.type # "none" ELSE error.type = class

get_error_code(error) == error.code
get_detail(error) == error.message

T_nospace == <<"N", "o", " ", "s", "p", "a", "c", "e", " ", "l", "e", "f", "t",
               " ", "o", "n", " ", "d", "e", "v", "i", "c", "e">>

\* The shared classifier of pilot.copytool.common: a recognised pattern gives
\* its own code, anything else the stage-in or stage-out fallback.
resolve_common_transfer_errors(output, is_stagein) ==
    IF Contains(output, T_nospace)
    THEN [rcode |-> NOLOCALSPACE, state |-> "NO_SPACE",
          error |-> "No available space left on local disk"]
    ELSE [rcode |-> IF is_stagein THEN STAGEINFAILED ELSE STAGEOUTFAILED,
          state |-> "COPY_ERROR", error |-> "Copy operation failed"]

\* ------------------------------------------------------------------ _stagefile

\* What one call of _stagefile leaves behind, given what execute returned:
\*   exc   the exception that leaves the call, or NoError
\*   ret   the value the call returns (Python's None: there is no return statement)
\*   info  the tuple get_file_info_from_output returned, when it was called
\*   parsed  whether get_file_info_from_output was called
\*   classified  the text handed to the classifier, when it was called
\* The timeout _stagefile has when it executes the command.  The statement
\*   #timeout = get_timeout(filesize)
\* is commented out: no estimate is computed, for any size.
stage_timeout(size) == None

StageUnpackFails(coption, stdout) ==
    coption # "" /\ Len(get_file_info_from_output(stdout)) # 3

\* _stagefile parsing the output of every command that exited with zero.
_stagefile_AlwaysParses(coption, rcode, stdout, stderr, is_stagein) ==
    IF rcode # 0
    THEN LET error == resolve_common_transfer_errors(stdout \o stderr, is_stagein)
         IN  [exc |-> PilotException(error.error, error.rcode, error.state, "xrdcp.py:116"),
              ret |-> None, info |-> None, parsed |-> FALSE,
              classified |-> stdout \o stderr]
    ELSE [exc |-> IF Len(get_file_info_from_output(stdout)) # 3
                  THEN ValueError("xrdcp.py:120") ELSE NoError,
          ret |-> None,
          info |-> Some(get_file_info_from_output(stdout)),
          parsed |-> TRUE, classified |-> <<>>]

_stagefile(coption, rcode, stdout, stderr, is_stagein) ==
    IF rcode # 0
    THEN LET error == resolve_common_transfer_errors(stdout \o stderr, is_stagein)
         IN  [exc |-> PilotException(error.error, error.rcode, error.state, "xrdcp.py:116"),
              ret |-> None, info |-> None, parsed |-> FALSE,
              classified |-> stdout \o stderr]
    ELSE IF coption # ""
    THEN [exc |-> IF StageUnpackFails(coption, stdout)
                  THEN ValueError("xrdcp.py:120") ELSE NoError,
          ret |-> None,
          info |-> Some(get_file_info_from_output(stdout)),
          parsed |-> TRUE, classified |-> <<>>]
    ELSE [exc |-> NoError, ret |-> None, info |-> None, parsed |-> FALSE,
          classified |-> <<>>]

\* ------------------------------------------------------------- get_timeout

\* A file size is an integer of any magnitude: it is written here as a sign
\* and  mb * 10^6 + b  bytes with 0 <= b < 10^6, so that the sizes that reach
\* timeout_max (above 5 * 10^9 bytes) can be written.

\* int(filesize / 0.5e6): the quotient, truncated toward zero.  The exact
\* quotient of an integer size is an integer or at least 2 * 10^-6 away from
\* one, and the double quotient of sizes of this magnitude differs from it by
\* far less, so its integer part is that of the exact quotient.
IntOfQuotient(filesize) ==
    LET q == 2 * filesize.mb + (filesize.b \div 500000)
    IN  IF filesize.neg THEN 0 - q ELSE q

min(a, b) == IF b < a THEN b ELSE a

\* The estimate without the upper limit.
get_timeout_NoCeiling(filesize) ==
    300 + IntOfQuotient(filesize)

get_timeout(filesize) ==
    LET timeout_max == 3 * 3600
        timeout_min == 300
        timeout == timeout_min + IntOfQuotient(filesize)
    IN  min(timeout, timeout_max)

\* ---------------------------------------------------- _resolve_checksum_option

T_cksum == <<"-", "-", "c", "k", "s", "u", "m">>
T_adler == <<"-", "a", "d", "l", "e", "r">>
T_opt_md5 == <<"-", "m", "d", "5">>

\* The resolver reading the help text whatever the help probe's exit code.
_resolve_checksum_option_IgnoresExit(version_rcode, rcode, output) ==
    IF Contains(output, T_cksum) THEN "--cksum adler32:print"
    ELSE IF Contains(output, T_adler) THEN "-adler"
    ELSE ""

\* The resolver looking for the adler32 flag first, and for the md5 flag too.
_resolve_checksum_option_AdlerFirst(version_rcode, rcode, output) ==
    IF rcode # 0 THEN ""
    ELSE IF Contains(output, T_adler) THEN "-adler"
    ELSE IF Contains(output, T_cksum) THEN "--cksum adler32:print"
    ELSE IF Contains(output, T_opt_md5) THEN "-md5"
    ELSE ""

\* The option chosen from what the two probes returned: the exit code of the
\* version probe, and the exit code and stdout + stderr of the help probe.
\* The exit code of the version probe is overwritten by the help probe's.
_resolve_checksum_option(version_rcode, rcode, output) ==
    LET checksum_type == "adler32"
    IN  IF rcode # 0 THEN ""
        ELSE IF Contains(output, T_cksum) THEN "--cksum adler32:print"
        ELSE IF Contains(output, T_adler) /\ checksum_type = "adler32" THEN "-adler"
        ELSE IF Contains(output, T_opt_md5) /\ checksum_type = "md5" THEN "-md5"
        ELSE ""

\* --------------------------------------------------------------- environment

\* What the help probe may print.
HelpTexts == {<<>>, T_cksum, T_adler, T_opt_md5, T_adler \o <<" ">> \o T_cksum}

O_plain == <<"o", "k">>
O_adler32 == T_adler32 \o <<":", " ", "1", "a", "2", "b", "3", "c", " ",
                           "1", "a", "2", "b", "3", "c", "4", "d", " ",
                           "1", "0", "0", "0", "0", "0", "0">>

\* What the copy command may print on stdout: nothing, text without a marker,
\* a marker without the checksum line, the checksum line.
Stdouts == {<<>>, O_plain, T_XRootD, O_adler32}
Stderrs == {<<>>, T_nospace}
ExitCodes == {0, 1}

\* How a call of the trace report (update or send) may end: it returns, or it
\* raises a PilotException or another exception.
TraceOutcomes == {"ok", "PilotException", "Exception"}

TraceError(kind) ==
    [type |-> kind, message |-> "trace report failed",
     code |-> IF kind = "PilotException" THEN UNKNOWNEXCEPTION ELSE 0,
     state |-> "", site |-> "trace_report"]

\* The status code a descriptor may carry into the call.
InitialCodes == {0, STAGEINFAILED}

\* --------------------------------------------------------------- FileSpec

\* The attributes of the i-th descriptor of the list; descriptors differ in
\* every attribute.
lfn(i) == <<"lfn", i>>
guid(i) == <<"guid", i>>
scope(i) == <<"scope", i>>
dataset(i) == <<"dataset", i>>
turl(i) == <<"turl", i>>
surl(i) == <<"surl", i>>
filesize(i) == <<"filesize", i>>
ddmendpoint(i) == <<"ddmendpoint", i>>

\* ------------------------------------------------------------------ state

VARIABLES
    op,                   \* the batch call: "copy_in" or "copy_out"
    allow_direct_access,  \* kwargs.get('allow_direct_access') or False
    files,                \* the descriptors: [direct, status, status_code]
    files0,               \* the descriptors as they were handed to the call
    idx,                  \* the position of the for loop in files
    pc,                   \* the statement the call is at
    coption,              \* the resolved checksum option
    localsite,            \* copy_in's localsite (None until known)
    trace,                \* the fields of trace_report
    sent,                 \* the events sent: the file and the fields at send()
    cmds,                 \* the copy commands executed, in order
    probes,               \* the version and help probes executed, in order
    da_evaluated,         \* the files whose is_directaccess() was called
    stage,                \* the last call of _stagefile
    caught,               \* the exception an except clause is handling
    raised,               \* the exception that left the call
    returned,             \* the list the call returned
    clock,                \* time()
    call,                 \* a function called on its own: its name and arguments
    result,               \* what that function returned (None until it has)
    script                \* the stage-in script: its arguments and its variables

vars == <<op, allow_direct_access, files, files0, idx, pc, coption, localsite, trace,
          sent, cmds, probes, da_evaluated, stage, caught, raised, returned,
          clock, call, result, script>>

\* no function is called on its own during a batch call
NoCall == [fn |-> "none"]

\* the stage-in script is not running
NoScript == [pc |-> "none"]

NoStage == [file |-> 0, rcode |-> 0, stdout |-> <<>>, exc |-> NoError,
            ret |-> None, info |-> None, parsed |-> FALSE, classified |-> <<>>]

EmptyTrace ==
    [localSite |-> None, remoteSite |-> None, filesize |-> None,
     filename |-> None, guid |-> None, scope |-> None, dataset |-> None,
     url |-> None, clientState |-> "", stateReason |-> "",
     catStart |-> 0, timeEnd |-> 0]

\* trace_report.update(**fields)
update(report, fields) ==
    [f \in DOMAIN report |-> IF f \in DOMAIN fields THEN fields[f] ELSE report[f]]

SetStatus(i, st, code) ==
    [files EXCEPT ![i].status = st, ![i].status_code = code]

Init ==
    /\ op \in {"copy_in", "copy_out"}
    /\ allow_direct_access \in BOOLEAN
    /\ \E n \in 0..MaxFiles, code \in InitialCodes :
         files \in [1..n -> [direct : BOOLEAN, status : {"pending"},
                             status_code : {code}]]
    /\ files0 = files
    /\ idx = 1
    /\ pc = "resolve"
    /\ coption = ""
    /\ localsite \in IF op = "copy_in" THEN {None, <<"DQ2_LOCAL_SITE_ID">>}
                                          ELSE {None}
    /\ trace = EmptyTrace
    /\ sent = <<>>
    /\ cmds = <<>>
    /\ probes = <<>>
    /\ da_evaluated = {}
    /\ stage = NoStage
    /\ caught = NoError
    /\ raised = NoError
    /\ returned = None
    /\ clock = 1
    /\ call = NoCall
    /\ result = None
    /\ script = NoScript

\* ------------------------------------------------------------------ steps

NumFiles == Len(files)

\* an exception leaves the batch call
Leave(error) == pc' = "raised" /\ raised' = error

\* trace_report.send(): the event sent is the report as it is now
send(file) == Append(sent, [file |-> file, event |-> trace])

\* The call of a trace_report method ends as the outcome says: when it
\* returns the call goes on at `next`, when it raises the exception leaves
\* the batch call.
TraceCall(outcome, next) ==
    IF outcome = "ok" THEN pc' = next /\ raised' = raised
    ELSE Leave(TraceError(outcome))

\* The option resolved only for a list that has a file to copy.
Resolve_OnlyWithFiles ==
    /\ pc = "resolve"
    /\ IF files = <<>>
       THEN UNCHANGED <<coption, probes>>
       ELSE /\ \E rcode \in ExitCodes, output \in HelpTexts :
                 coption' = _resolve_checksum_option(0, rcode, output)
            /\ probes' = probes \o <<"--version", "-h">>
    /\ pc' = "loop"
    /\ UNCHANGED <<script, call, result, op, files0, allow_direct_access,
                   files, idx, localsite, trace, sent,
                   cmds, da_evaluated, stage, caught, raised, returned, clock>>

\* setup and coption of both drivers: the version probe, then the help probe
Resolve ==
    /\ pc = "resolve"
    /\ \E version_rcode \in ExitCodes, rcode \in ExitCodes, output \in HelpTexts :
         coption' = _resolve_checksum_option(version_rcode, rcode, output)
    /\ probes' = probes \o <<"--version", "-h">>
    /\ pc' = "loop"
    /\ UNCHANGED <<script, call, result, op, files0, allow_direct_access,
                   files, idx, localsite, trace, sent,
                   cmds, da_evaluated, stage, caught, raised, returned, clock>>

\* for fspec in files: the next descriptor, or  return files
LoopHead ==
    /\ pc = "loop"
    /\ IF idx > NumFiles
       THEN /\ pc' = "returned"
            /\ returned' = Some([i \in 1..NumFiles |-> i])
       ELSE /\ pc' = IF op = "copy_in" THEN "ci_update" ELSE "co_update"
            /\ returned' = returned
    /\ UNCHANGED <<script, call, result, op, files0, allow_direct_access,
                   files, idx, coption, localsite,
                   trace, sent, cmds, probes, da_evaluated, stage, caught,
                   raised, clock>>

\* ---------------------------------------------------------------- copy_in

\* The three updates that open copy_in's loop body, the first `n` of them done.
CI_Updates(report, site, i, n) ==
    LET u1 == update(report, [localSite |-> site, remoteSite |-> ddmendpoint(i),
                              filesize |-> filesize(i)])
        u2 == update(u1, [filename |-> lfn(i), guid |-> guid(i)])
        u3 == update(u2, [scope |-> scope(i), dataset |-> dataset(i)])
    IN  CASE n = 0 -> report [] n = 1 -> u1 [] n = 2 -> u2 [] OTHER -> u3

CI_Update ==
    /\ pc = "ci_update"
    /\ localsite' = IF localsite # None THEN localsite ELSE ddmendpoint(idx)
    /\ \E outcome \in TraceOutcomes, at \in 1..3 :
         /\ outcome = "ok" => at = 3
         /\ trace' = CI_Updates(trace, localsite', idx,
                                IF outcome = "ok" THEN 3 ELSE at - 1)
         /\ TraceCall(outcome, "ci_direct")
    /\ UNCHANGED <<script, call, result, op, files0, allow_direct_access,
                   files, idx, coption, sent, cmds,
                   probes, da_evaluated, stage, caught, returned, clock>>

\* The condition of the direct-access shortcut; the predicate is the left
\* operand of the `and`, so it is called whatever allow_direct_access is.
CallsPredicate(allowed) == TRUE

\* The condition with the mode inverted, and the condition without the mode.
IsDirectAccess_Inverted(direct, allowed) == direct /\ ~allowed

IsDirectAccess_IgnoresMode(direct, allowed) == direct

IsDirectAccess(direct, allowed) == direct /\ allowed

CI_Direct ==
    /\ pc = "ci_direct"
    /\ da_evaluated' = IF CallsPredicate(allow_direct_access)
                       THEN da_evaluated \cup {idx} ELSE da_evaluated
    /\ IF IsDirectAccess(files[idx].direct, allow_direct_access)
       THEN /\ files' = SetStatus(idx, "remote_io", 0)
            /\ pc' = "ci_da_update"
       ELSE /\ files' = files
            /\ pc' = "ci_catstart"
    /\ UNCHANGED <<script, call, result, op, files0, allow_direct_access,
                   idx, coption, localsite, trace, sent,
                   cmds, probes, stage, caught, raised, returned, clock>>

CI_DaUpdate ==
    /\ pc = "ci_da_update"
    /\ \E outcome \in TraceOutcomes :
         /\ trace' = IF outcome = "ok"
                     THEN update(trace, [url |-> turl(idx),
                                         clientState |-> "FOUND_ROOT",
                                         stateReason |-> "direct_access"])
                     ELSE trace
         /\ TraceCall(outcome, "ci_da_send")
    /\ UNCHANGED <<script, call, result, op, files0, allow_direct_access,
                   files, idx, coption, localsite, sent,
                   cmds, probes, da_evaluated, stage, caught, returned, clock>>

\* send, then `continue`
CI_DaSend ==
    /\ pc = "ci_da_send"
    /\ \E outcome \in TraceOutcomes :
         /\ sent' = IF outcome = "ok" THEN send(idx) ELSE sent
         /\ idx' = IF outcome = "ok" THEN idx + 1 ELSE idx
         /\ TraceCall(outcome, "loop")
    /\ UNCHANGED <<script, call, result, op, files0, allow_direct_access,
                   files, coption, localsite, trace,
                   cmds, probes, da_evaluated, stage, caught, returned, clock>>

CI_CatStart ==
    /\ pc = "ci_catstart"
    /\ clock' = clock + 1
    /\ \E outcome \in TraceOutcomes :
         /\ trace' = IF outcome = "ok" THEN update(trace, [catStart |-> clock])
                     ELSE trace
         /\ TraceCall(outcome, "ci_stage")
    /\ UNCHANGED <<script, call, result, op, files0, allow_direct_access,
                   files, idx, coption, localsite, sent,
                   cmds, probes, da_evaluated, stage, caught, returned>>

\* The handler recording the fallback code for every exception.
CI_FailureCode_AlwaysFallback(error) == STAGEINFAILED

\* The status code copy_in records for the exception it caught.
CI_FailureCode(error) ==
    IF isinstance(error, "PilotException") THEN get_error_code(error)
    ELSE STAGEINFAILED

CI_Diagnostics(error) ==
    IF isinstance(error, "PilotException") THEN get_detail(error)
    ELSE "(consult log)"

\* Which exceptions of _stagefile copy_in's except clause catches.
CI_Catches(error) == isinstance(error, "Exception")

\* The copy command, and the statements up to the first trace call after it:
\* on success the two assignments of the try block, on an exception the
\* assignments of the except clause.
CI_Stage ==
    /\ pc = "ci_stage"
    /\ \E rcode \in ExitCodes, stdout \in Stdouts, stderr \in Stderrs :
         LET r == _stagefile(coption, rcode, stdout, stderr, TRUE)
         IN  /\ stage' = [file |-> idx, rcode |-> rcode, stdout |-> stdout,
                          exc |-> r.exc, ret |-> r.ret, info |-> r.info,
                          parsed |-> r.parsed, classified |-> r.classified]
             /\ IF r.exc = NoError
                THEN /\ files' = SetStatus(idx, "transferred", 0)
                     /\ pc' = "ci_done_update"
                     /\ UNCHANGED <<caught, raised>>
                ELSE IF CI_Catches(r.exc)
                THEN /\ files' = SetStatus(idx, "failed", CI_FailureCode(r.exc))
                     /\ caught' = r.exc
                     /\ pc' = "ci_fail_update"
                     /\ raised' = raised
                ELSE /\ Leave(r.exc)
                     /\ UNCHANGED <<files, caught>>
    /\ cmds' = Append(cmds, [file |-> idx, coption |-> coption,
                             source |-> turl(idx),
                             destination |-> <<"workdir", lfn(idx)>>,
                             timeout |-> stage_timeout(filesize(idx))])
    /\ UNCHANGED <<script, call, result, op, files0, allow_direct_access,
                   idx, coption, localsite, trace, sent,
                   probes, da_evaluated, returned, clock>>

CI_FailUpdate ==
    /\ pc = "ci_fail_update"
    /\ clock' = clock + 1
    /\ \E outcome \in TraceOutcomes :
         /\ trace' = IF outcome = "ok"
                     THEN update(trace, [clientState |-> "STAGEIN_ATTEMPT_FAILED",
                                         stateReason |-> CI_Diagnostics(caught),
                                         timeEnd |-> clock])
                     ELSE trace
         /\ TraceCall(outcome, "ci_fail_send")
    /\ UNCHANGED <<script, call, result, op, files0, allow_direct_access,
                   files, idx, coption, localsite, sent,
                   cmds, probes, da_evaluated, stage, caught, returned>>

\* The failure handler without its send.
CI_FailSend_Skipped ==
    /\ pc = "ci_fail_send"
    /\ pc' = "ci_raise"
    /\ UNCHANGED <<script, call, result, op, files0, allow_direct_access,
                   files, idx, coption, localsite,
                   trace, sent, cmds, probes, da_evaluated, stage, caught, raised,
                   returned, clock>>

CI_FailSend ==
    /\ pc = "ci_fail_send"
    /\ \E outcome \in TraceOutcomes :
         /\ sent' = IF outcome = "ok" THEN send(idx) ELSE sent
         /\ TraceCall(outcome, "ci_raise")
    /\ UNCHANGED <<script, call, result, op, files0, allow_direct_access,
                   files, idx, coption, localsite,
                   trace, cmds, probes, da_evaluated, stage, caught, returned,
                   clock>>

\* The exception copy_in raises for the failed file.
CI_Error(error, status_code) ==
    PilotException(CI_Diagnostics(error), status_code, "STAGEIN_ATTEMPT_FAILED",
                   "xrdcp.py:176")

\* The failure handler trying the copy command of the failed file again.
CI_Raise_Retries ==
    /\ pc = "ci_raise"
    /\ pc' = "ci_stage"
    /\ UNCHANGED <<script, call, result, op, files0, allow_direct_access,
                   files, idx, coption, localsite,
                   trace, sent, cmds, probes, da_evaluated, stage, caught, raised,
                   returned, clock>>

\* The failure handler going on with the next file instead of raising.
CI_Raise_Continues ==
    /\ pc = "ci_raise"
    /\ idx' = idx + 1
    /\ pc' = "loop"
    /\ UNCHANGED <<script, call, result, op, files0, allow_direct_access,
                   files, coption, localsite,
                   trace, sent, cmds, probes, da_evaluated, stage, caught, raised,
                   returned, clock>>

CI_Raise ==
    /\ pc = "ci_raise"
    /\ Leave(CI_Error(caught, files[idx].status_code))
    /\ UNCHANGED <<script, call, result, op, files0, allow_direct_access,
                   files, idx, coption, localsite,
                   trace, sent, cmds, probes, da_evaluated, stage, caught,
                   returned, clock>>

CI_DoneUpdate ==
    /\ pc = "ci_done_update"
    /\ clock' = clock + 1
    /\ \E outcome \in TraceOutcomes :
         /\ trace' = IF outcome = "ok"
                     THEN update(trace, [clientState |-> "DONE",
                                         stateReason |-> "OK",
                                         timeEnd |-> clock])
                     ELSE trace
         /\ TraceCall(outcome, "ci_done_send")
    /\ UNCHANGED <<script, call, result, op, files0, allow_direct_access,
                   files, idx, coption, localsite, sent,
                   cmds, probes, da_evaluated, stage, caught, returned>>

CI_DoneSend ==
    /\ pc = "ci_done_send"
    /\ \E outcome \in TraceOutcomes :
         /\ sent' = IF outcome = "ok" THEN send(idx) ELSE sent
         /\ idx' = IF outcome = "ok" THEN idx + 1 ELSE idx
         /\ TraceCall(outcome, "loop")
    /\ UNCHANGED <<script, call, result, op, files0, allow_direct_access,
                   files, coption, localsite, trace,
                   cmds, probes, da_evaluated, stage, caught, returned, clock>>

\* --------------------------------------------------------------- copy_out

\* The two updates that open copy_out's loop body, the first `n` of them done.
CO_Updates(report, i, now, n) ==
    LET u1 == update(report, [scope |-> scope(i), dataset |-> dataset(i),
                              url |-> surl(i), filesize |-> filesize(i)])
        u2 == update(u1, [catStart |-> now, filename |-> lfn(i),
                          guid |-> guid(i)])
    IN  CASE n = 0 -> report [] n = 1 -> u1 [] OTHER -> u2

CO_Update ==
    /\ pc = "co_update"
    /\ \E outcome \in TraceOutcomes, at \in 1..2 :
         /\ outcome = "ok" => at = 2
         /\ trace' = CO_Updates(trace, idx, clock,
                                IF outcome = "ok" THEN 2 ELSE at - 1)
         \* time() is an argument of the second call
         /\ clock' = IF at = 2 THEN clock + 1 ELSE clock
         /\ TraceCall(outcome, "co_stage")
    /\ UNCHANGED <<script, call, result, op, files0, allow_direct_access,
                   files, idx, coption, localsite, sent,
                   cmds, probes, da_evaluated, stage, caught, returned>>

\* Which exceptions raised in the try block copy_out's except clause catches.
CO_Catches(error) == isinstance(error, "PilotException")

\* The status code copy_out records for the exception it caught.
CO_FailureCode(error) ==
    IF isinstance(error, "PilotException") THEN get_error_code(error)
    ELSE STAGEOUTFAILED

\* An exception raised inside copy_out's try block: the except clause sets
\* the status when it catches it, otherwise the exception leaves the call.
CO_Except(error) ==
    IF CO_Catches(error)
    THEN /\ files' = SetStatus(idx, "failed", CO_FailureCode(error))
         /\ caught' = error
         /\ pc' = "co_fail_update"
         /\ raised' = raised
    ELSE /\ Leave(error)
         /\ UNCHANGED <<files, caught>>

\* The copy command, and the statements up to the first trace call after it.
CO_Stage ==
    /\ pc = "co_stage"
    /\ \E rcode \in ExitCodes, stdout \in Stdouts, stderr \in Stderrs :
         LET r == _stagefile(coption, rcode, stdout, stderr, FALSE)
         IN  /\ stage' = [file |-> idx, rcode |-> rcode, stdout |-> stdout,
                          exc |-> r.exc, ret |-> r.ret, info |-> r.info,
                          parsed |-> r.parsed, classified |-> r.classified]
             /\ IF r.exc = NoError
                THEN /\ files' = SetStatus(idx, "transferred", 0)
                     /\ pc' = "co_done_update"
                     /\ UNCHANGED <<caught, raised>>
                ELSE CO_Except(r.exc)
    /\ cmds' = Append(cmds, [file |-> idx, coption |-> coption,
                             source |-> surl(idx), destination |-> turl(idx),
                             timeout |-> stage_timeout(filesize(idx))])
    /\ UNCHANGED <<script, call, result, op, files0, allow_direct_access,
                   idx, coption, localsite, trace, sent,
                   probes, da_evaluated, returned, clock>>

\* The update and the send of a transferred file are inside the try block.
CO_DoneUpdate ==
    /\ pc = "co_done_update"
    /\ clock' = clock + 1
    /\ \E outcome \in TraceOutcomes :
         IF outcome = "ok"
         THEN /\ trace' = update(trace, [clientState |-> "DONE",
                                         stateReason |-> "OK",
                                         timeEnd |-> clock])
              /\ pc' = "co_done_send"
              /\ UNCHANGED <<files, caught, raised>>
         ELSE /\ trace' = trace
              /\ CO_Except(TraceError(outcome))
    /\ UNCHANGED <<script, call, result, op, files0, allow_direct_access,
                   idx, coption, localsite, sent, cmds,
                   probes, da_evaluated, stage, returned>>

CO_DoneSend ==
    /\ pc = "co_done_send"
    /\ \E outcome \in TraceOutcomes :
         IF outcome = "ok"
         THEN /\ sent' = send(idx)
              /\ idx' = idx + 1
              /\ pc' = "loop"
              /\ UNCHANGED <<files, caught, raised>>
         ELSE /\ UNCHANGED <<sent, idx>>
              /\ CO_Except(TraceError(outcome))
    /\ UNCHANGED <<script, call, result, op, files0, allow_direct_access,
                   coption, localsite, trace, cmds,
                   probes, da_evaluated, stage, returned, clock>>

\* error.get('state', None) or 'STAGEOUT_ATTEMPT_FAILED'
CO_ClientState(error) ==
    IF error.state # "" THEN error.state ELSE "STAGEOUT_ATTEMPT_FAILED"

CO_FailUpdate ==
    /\ pc = "co_fail_update"
    /\ clock' = clock + 1
    /\ \E outcome \in TraceOutcomes :
         /\ trace' = IF outcome = "ok"
                     THEN update(trace, [clientState |-> CO_ClientState(caught),
                                         stateReason |-> caught.message,
                                         timeEnd |-> clock])
                     ELSE trace
         /\ TraceCall(outcome, "co_fail_send")
    /\ UNCHANGED <<script, call, result, op, files0, allow_direct_access,
                   files, idx, coption, localsite, sent,
                   cmds, probes, da_evaluated, stage, caught, returned>>

CO_FailSend ==
    /\ pc = "co_fail_send"
    /\ \E outcome \in TraceOutcomes :
         /\ sent' = IF outcome = "ok" THEN send(idx) ELSE sent
         /\ TraceCall(outcome, "co_raise")
    /\ UNCHANGED <<script, call, result, op, files0, allow_direct_access,
                   files, idx, coption, localsite,
                   trace, cmds, probes, da_evaluated, stage, caught, returned,
                   clock>>

\* copy_out raising a new exception with the stage-out fallback code, the way
\* copy_in builds its own.
CO_Error_Coerced(error) ==
    PilotException(error.message, STAGEOUTFAILED, "STAGEOUT_ATTEMPT_FAILED",
                   "xrdcp.py:213")

\* The exception copy_out's bare `raise` lets out: the one it caught.
CO_Error(error) == error

CO_Raise ==
    /\ pc = "co_raise"
    /\ Leave(CO_Error(caught))
    /\ UNCHANGED <<script, call, result, op, files0, allow_direct_access,
                   files, idx, coption, localsite,
                   trace, sent, cmds, probes, da_evaluated, stage, caught,
                   returned, clock>>

\* ------------------------------------------------------------ specification

Next ==
    \/ Resolve
    \/ LoopHead
    \/ CI_Update
    \/ CI_Direct
    \/ CI_DaUpdate
    \/ CI_DaSend
    \/ CI_CatStart
    \/ CI_Stage
    \/ CI_FailUpdate
    \/ CI_FailSend
    \/ CI_Raise
    \/ CI_DoneUpdate
    \/ CI_DoneSend
    \/ CO_Update
    \/ CO_Stage
    \/ CO_DoneUpdate
    \/ CO_DoneSend
    \/ CO_FailUpdate
    \/ CO_FailSend
    \/ CO_Raise

Spec == Init /\ [][Next]_vars

\* ------------------------------------------------------------------ claims

Files == 1..NumFiles
Done == pc \in {"returned", "raised"}
\* the files a copy command was executed for
CmdFiles == {cmds[j].file : j \in DOMAIN cmds}
\* the events sent for file i
EventsFor(i) == {j \in DOMAIN sent : sent[j].file = i}
\* the last call of _stagefile ended with an exception
StageFailed == stage.file # 0 /\ stage.exc # NoError
TerminalStatus == {"transferred", "remote_io", "failed"}
\* what the classifier answers for the output of the last failed copy command
Classified == resolve_common_transfer_errors(stage.classified, op = "copy_in")

\* C1: copy_in aborts on the first file whose stage operation fails.  From the
\* failure on, and so when copy_in has raised: the loop is still at that file
\* k, every file before k is 'transferred' or 'remote_io', file k is 'failed'
\* with, on a nonzero exit, the code the classifier gives for stdout + stderr,
\* every file after k has the status and status_code
\* it was handed in with, no copy command ran for a file after k, and copy_in
\* does not return.
C1_StageInAbortsOnFirstFailure ==
    (op = "copy_in" /\ StageFailed) =>
        LET k == stage.file
        IN  /\ idx = k
            /\ pc # "returned"
            /\ \A j \in Files : j < k =>
                   files[j].status \in {"transferred", "remote_io"}
            /\ files[k].status = "failed"
            /\ stage.rcode # 0 => files[k].status_code = Classified.rcode
            /\ \A j \in Files : j > k => files[j] = files0[j]
            /\ \A j \in CmdFiles : j <= k

\* Three files, the second fails with the no-space code: copy_in has raised,
\* the first is transferred, the third untouched.
C1_Witness ==
    /\ op = "copy_in" /\ pc = "raised" /\ raised.site = "xrdcp.py:176"
    /\ NumFiles = 3 /\ stage.file = 2 /\ stage.rcode # 0
    /\ files[1].status = "transferred"
    /\ files[2].status = "failed" /\ files[2].status_code = NOLOCALSPACE
    /\ files[3].status = "pending" /\ files[3].status_code = STAGEINFAILED

\* C2: with a checksum flag requested and a zero exit, output from which no
\* checksum can be read (empty, without a marker, or not matching the pattern)
\* is not a failure: _stagefile raises nothing, and when the batch call is over
\* the file is 'transferred' with status_code 0.
NoChecksumIn(stdout) ==
    get_file_info_from_output(stdout) \in {<<None, None>>, <<None, None, None>>}

C2_UnparseableOutputIsNoFailure ==
    (stage.file # 0 /\ stage.rcode = 0 /\ stage.parsed /\ NoChecksumIn(stage.stdout)) =>
        /\ stage.exc = NoError
        /\ files[stage.file].status # "failed"

\* C3: within one batch call a status that is 'transferred', 'remote_io' or
\* 'failed' is never changed again.
C3_StatusMonotonic ==
    [][\A i \in Files :
          files[i].status \in TerminalStatus => files'[i].status = files[i].status]_vars

\* C4: in copy_in, once the direct-access test was made for a file whose
\* predicate is true while direct access is enabled, the file is 'remote_io'
\* with status_code 0 and no copy command is ever executed for it; and once
\* the loop has gone on to the next file, exactly one event was sent for it,
\* with its url, clientState 'FOUND_ROOT' and stateReason 'direct_access'.
\* Conversely no other file of copy_in is 'remote_io'.
C4_DirectAccessShortcut ==
    op = "copy_in" =>
        \A i \in Files :
            /\ (i \in da_evaluated /\ files[i].direct /\ allow_direct_access) =>
                   /\ files[i].status = "remote_io"
                   /\ files[i].status_code = 0
                   /\ i \notin CmdFiles
                   /\ i < idx =>
                          /\ Cardinality(EventsFor(i)) = 1
                          /\ \A j \in EventsFor(i) :
                                 /\ sent[j].event.clientState = "FOUND_ROOT"
                                 /\ sent[j].event.stateReason = "direct_access"
                                 /\ sent[j].event.url = turl(i)
                                 /\ sent[j].event.filename = lfn(i)
            /\ files[i].status = "remote_io" =>
                   files[i].direct /\ allow_direct_access

\* A direct-access file with a stale status code was passed by, and the copy
\* command then ran for the next file.
C4_Witness ==
    /\ op = "copy_in" /\ allow_direct_access /\ NumFiles >= 2
    /\ files[1].direct /\ files0[1].status_code # 0
    /\ files[1].status = "remote_io" /\ files[1].status_code = 0
    /\ Len(sent) >= 1 /\ sent[1].file = 1
    /\ CmdFiles = {2}

\* C5 as stated: with allow_direct_access absent or false, copy_in never calls
\* the direct-access predicate of any file.
C5_PredicateOnlyWhenEnabled ==
    (op = "copy_in" /\ ~allow_direct_access) => da_evaluated = {}

\* C5 as amended: copy_in calls the predicate of every file its loop reaches,
\* whatever allow_direct_access is; with allow_direct_access absent or false
\* the answer has no effect: no file becomes 'remote_io', and every file the
\* loop has passed had its copy command executed.
C5_PredicateHasNoEffectWhenDisabled ==
    op = "copy_in" =>
        /\ \A i \in Files : i < idx => i \in da_evaluated
        /\ ~allow_direct_access =>
               \A i \in Files :
                   /\ files[i].status # "remote_io"
                   /\ i < idx => i \in CmdFiles

\* Direct access is off, the predicate of the first file is true and was
\* called, and the file was transferred by the copy command.
C5_Witness ==
    /\ op = "copy_in" /\ ~allow_direct_access /\ NumFiles >= 1
    /\ files[1].direct /\ 1 \in da_evaluated
    /\ files[1].status = "transferred" /\ 1 \in CmdFiles /\ idx > 1

\* C6: on a zero exit with a checksum flag requested, _stagefile returns the
\* (file size, checksum, checksum type) read from the output.
C6_ReturnsParsedTriple ==
    (stage.file # 0 /\ stage.rcode = 0 /\ stage.parsed /\ stage.exc = NoError) =>
        stage.ret = stage.info

\* C7: every exception leaving _stagefile is a PilotException; on a nonzero
\* exit it carries the message, code and state the classifier gives for
\* stdout + stderr and the call's is_stagein flag.
C7_OnlyPilotExceptions ==
    StageFailed =>
        /\ stage.exc.type = "PilotException"
        /\ stage.rcode # 0 =>
               /\ stage.exc.message = Classified.error
               /\ stage.exc.code = Classified.rcode
               /\ stage.exc.state = Classified.state

\* C8: in copy_out, when the exception of a file's stage operation leaves the
\* call, the file is 'failed' and an event was sent for it.
C8_StageOutFailureIsRecorded ==
    (op = "copy_out" /\ pc = "raised" /\ StageFailed /\ raised = stage.exc) =>
        /\ files[stage.file].status = "failed"
        /\ EventsFor(stage.file) # {}

\* C9: in copy_out, from the moment a file's stage operation fails with a
\* PilotException: the file is 'failed', its status_code is that exception's
\* code (the classifier's), no copy command is executed for a later file,
\* copy_out does not return, and the exception its `raise` lets out is that
\* very object.
C9_StageOutPropagatesUnchanged ==
    (op = "copy_out" /\ StageFailed /\ stage.exc.type = "PilotException") =>
        LET k == stage.file
        IN  /\ idx = k
            /\ pc # "returned"
            /\ files[k].status = "failed"
            /\ files[k].status_code = stage.exc.code
            /\ stage.rcode # 0 => stage.exc.code = Classified.rcode
            /\ \A j \in CmdFiles : j <= k
            /\ \A j \in Files : j > k => files[j] = files0[j]
            /\ (pc = "raised" /\ raised.site # "trace_report") => raised = stage.exc

\* The first of two files fails for lack of space: the classifier's exception
\* has left copy_out and the second file was not touched.
C9_Witness ==
    /\ op = "copy_out" /\ pc = "raised" /\ NumFiles >= 2
    /\ stage.file = 1 /\ stage.exc.code = NOLOCALSPACE
    /\ raised = stage.exc /\ raised.site = "xrdcp.py:116"
    /\ files[1].status = "failed" /\ files[1].status_code = NOLOCALSPACE
    /\ files[2].status = "pending" /\ CmdFiles = {1}

\* C10: the order of copy_in's effects for a failing file.  When the trace
\* report is updated with the failure the status is already 'failed' and its
\* code recorded; when the event is sent the report already carries the
\* failure state, the reason and the end time; when the exception is raised the
\* event was already sent; and the exception raised carries the recorded
\* status_code.
FailureEvent(e) ==
    /\ e.clientState = "STAGEIN_ATTEMPT_FAILED"
    /\ e.stateReason = CI_Diagnostics(caught)
    /\ e.timeEnd > 0 /\ e.timeEnd >= e.catStart

C10_StageInFailureOrder ==
    op = "copy_in" =>
        /\ pc \in {"ci_fail_update", "ci_fail_send", "ci_raise"} =>
               /\ files[idx].status = "failed"
               /\ files[idx].status_code = CI_FailureCode(caught)
               /\ raised = NoError
        /\ pc = "ci_fail_update" => EventsFor(idx) = {}
        /\ pc = "ci_fail_send" => FailureEvent(trace) /\ EventsFor(idx) = {}
        /\ (pc = "ci_raise" \/ (pc = "raised" /\ raised.site = "xrdcp.py:176")) =>
               /\ Cardinality(EventsFor(idx)) = 1
               /\ sent[Len(sent)].file = idx
               /\ FailureEvent(sent[Len(sent)].event)
        /\ (pc = "raised" /\ raised.site = "xrdcp.py:176") =>
               /\ files[idx].status = "failed"
               /\ raised.type = "PilotException"
               /\ raised.code = files[idx].status_code
               /\ raised.state = "STAGEIN_ATTEMPT_FAILED"

\* copy_in has raised for a file whose stage operation ended with an exception
\* that is no PilotException; the event was sent and the codes agree.
C10_Witness ==
    /\ op = "copy_in" /\ pc = "raised" /\ raised.site = "xrdcp.py:176"
    /\ stage.exc.type = "ValueError"
    /\ files[idx].status_code = STAGEINFAILED /\ raised.code = STAGEINFAILED
    /\ EventsFor(idx) # {}

\* C11: a failure of the trace report (update or send raising) is never
\* turned into a transfer failure: no exception of the trace report leaves
\* copy_in or copy_out, in place of the transfer's own error or otherwise, and
\* none is handled by an except clause as the failure of a file.
C11_TraceFailureIsNoTransferFailure ==
    /\ raised.site # "trace_report"
    /\ caught.site # "trace_report"

\* C12: at every send the per-file fields of the event are those of the file
\* being processed: its name, its url (the turl in copy_in, the surl in
\* copy_out), the client state of what happened to it, and a start and an end
\* time written for it, none of them a value an earlier event carried for
\* another file.
StateOfStatus(st, clientState) ==
    CASE st = "remote_io" -> clientState = "FOUND_ROOT"
      [] st = "transferred" -> clientState = "DONE"
      [] st = "failed" -> clientState \notin {"", "DONE", "FOUND_ROOT"}
      [] OTHER -> FALSE

C12_EventFieldsAreOfCurrentFile ==
    \A j \in DOMAIN sent :
        LET f == sent[j].file
            e == sent[j].event
        IN  /\ e.filename = lfn(f)
            /\ e.url = IF op = "copy_in" THEN turl(f) ELSE surl(f)
            /\ StateOfStatus(files[f].status, e.clientState)
            /\ e.catStart > 0 /\ e.timeEnd > e.catStart
            /\ \A k \in 1..(j - 1) :
                   /\ sent[k].event.url # e.url
                   /\ sent[k].event.catStart # e.catStart
                   /\ sent[k].event.timeEnd # e.timeEnd

\* C13: within one batch call the copy command runs for the files in list
\* order and at most once for a file (a failed file is not tried again), never
\* ahead of the loop, and only when every earlier file of the list has a
\* status set by the call.
C13_CommandsInOrderOncePerFile ==
    /\ \A j \in 1..(Len(cmds) - 1) : cmds[j].file < cmds[j + 1].file
    /\ Cardinality(CmdFiles) = Len(cmds)
    /\ \A j \in DOMAIN cmds :
           /\ cmds[j].file \in Files /\ cmds[j].file <= idx
           /\ \A i \in 1..(cmds[j].file - 1) : files[i].status \in TerminalStatus
    /\ \A i \in Files : files[i].status \in {"transferred", "failed"} => i \in CmdFiles

\* copy_in returned for three files: the copy command ran for the first and
\* the third, the second was accessed directly.
C13_Witness ==
    /\ op = "copy_in" /\ pc = "returned" /\ NumFiles = 3
    /\ Len(cmds) = 2 /\ cmds[1].file = 1 /\ cmds[2].file = 3
    /\ files[2].status = "remote_io"

\* C14: a batch call that returns normally returns the list it was given,
\* the same descriptors in the same order, and every descriptor of it is
\* 'transferred' or 'remote_io' with status_code 0: none is 'failed', none is
\* still pending; a call that has not returned has returned nothing.
C14_ReturnsSameListAllSucceeded ==
    /\ returned # None => pc = "returned"
    /\ pc = "returned" =>
           /\ returned = Some([i \in 1..Len(files0) |-> i])
           /\ Len(files) = Len(files0)
           /\ \A i \in Files :
                  /\ files[i].direct = files0[i].direct
                  /\ files[i].status \in {"transferred", "remote_io"}
                  /\ files[i].status_code = 0

\* copy_in returned for three descriptors that came with a nonzero
\* status_code: one was accessed directly, the others were copied.
C14_Witness ==
    /\ op = "copy_in" /\ pc = "returned" /\ NumFiles = 3
    /\ \A i \in Files : files0[i].status_code # 0
    /\ files[1].status = "transferred" /\ files[2].status = "remote_io"
    /\ files[3].status = "transferred"

\* C17: a batch call resolves the checksum option once, before the first
\* file is processed and whatever the number of files: until the resolution
\* nothing has been probed, processed, executed or sent; from then on the
\* probes of the call are exactly one version probe followed by one help
\* probe, and every copy command of the call carries the resolved option.
C17_OptionResolvedOncePerBatch ==
    /\ pc = "resolve" =>
           /\ probes = <<>> /\ cmds = <<>> /\ sent = <<>> /\ idx = 1
           /\ trace = EmptyTrace /\ files = files0
    /\ pc # "resolve" => probes = <<"--version", "-h">>
    /\ \A j \in DOMAIN cmds : cmds[j].coption = coption

\* The resolved option does not change once the probes have run.
C17_OptionIsFixed ==
    [][pc # "resolve" => coption' = coption]_vars

\* A call with three files ran three copy commands with a resolved option
\* that is not empty.
C17_Witness ==
    /\ Len(cmds) = 3 /\ coption = "-adler"
    /\ probes = <<"--version", "-h">>

\* A call with no file returned after its two probes.
C17_WitnessNoFiles ==
    /\ pc = "returned" /\ files0 = <<>> /\ probes = <<"--version", "-h">>

\* ------------------------------------------- functions called on their own

\* The variables of the batch calls while a function is called on its own.
Idle ==
    /\ op = "none" /\ allow_direct_access = FALSE
    /\ files = <<>> /\ files0 = <<>> /\ idx = 1 /\ pc = "idle"
    /\ coption = "" /\ localsite = None /\ trace = EmptyTrace
    /\ sent = <<>> /\ cmds = <<>> /\ probes = <<>> /\ da_evaluated = {}
    /\ stage = NoStage /\ caught = NoError /\ raised = NoError
    /\ returned = None /\ clock = 1

\* The function returns: the call stays as it was, the result is there.
Returns(value) ==
    /\ result = None
    /\ result' = Some(value)
    /\ UNCHANGED <<script, call, op, allow_direct_access, files, files0, idx, pc, coption,
                   localsite, trace, sent, cmds, probes, da_evaluated, stage,
                   caught, raised, returned, clock>>

\* What the help probe may print: nothing, the name of a flag or another
\* word, or two of them.
T_usage == <<"u", "s", "a", "g", "e">>
ProbeWords == {T_cksum, T_adler, T_opt_md5, T_usage}
ProbeTexts ==
    {<<>>} \cup ProbeWords \cup {a \o <<" ">> \o b : a \in ProbeWords, b \in ProbeWords}

\* _resolve_checksum_option called with what its two probes return
InitResolve ==
    /\ Idle
    /\ script = NoScript
    /\ call \in [fn : {"_resolve_checksum_option"}, version_rcode : ExitCodes,
                 rcode : ExitCodes, output : ProbeTexts]
    /\ result = None

ResolveReturns ==
    /\ call.fn = "_resolve_checksum_option"
    /\ Returns(_resolve_checksum_option(call.version_rcode, call.rcode, call.output))

SpecResolve == InitResolve /\ [][ResolveReturns]_vars

\* C15 as stated: the resolver returns the empty string whenever the version
\* probe or the help probe exits with a nonzero code, whatever was printed.
C15_EmptyWhenEitherProbeFails ==
    (result # None /\ (call.version_rcode # 0 \/ call.rcode # 0))
        => result = Some("")

\* C15 as amended: the resolver returns the empty string whenever the help
\* probe exits with a nonzero code, whatever was printed and whatever the
\* exit code of the version probe.
C15_EmptyWhenHelpProbeFails ==
    (result # None /\ call.rcode # 0) => result = Some("")

\* The help probe printed the --cksum flag and exited with 1 after a version
\* probe that exited with 0: the resolver returned the empty string.
C15_Witness ==
    /\ call.fn = "_resolve_checksum_option"
    /\ call.version_rcode = 0 /\ call.rcode = 1 /\ Contains(call.output, T_cksum)
    /\ result = Some("")

\* C16: the resolver returns one of '', '--cksum adler32:print', '-adler',
\* never '-md5'; after a help probe that exited with 0 it returns
\* '--cksum adler32:print' if the help text contains '--cksum', else '-adler'
\* if it contains '-adler', else the empty string.
C16_FlagByPriority ==
    result # None =>
        /\ result[1] \in {"", "--cksum adler32:print", "-adler"}
        /\ result[1] # "-md5"
        /\ call.rcode = 0 =>
               /\ Contains(call.output, T_cksum) => result[1] = "--cksum adler32:print"
               /\ (~Contains(call.output, T_cksum) /\ Contains(call.output, T_adler))
                      => result[1] = "-adler"
               /\ (~Contains(call.output, T_cksum) /\ ~Contains(call.output, T_adler))
                      => result[1] = ""

\* The help text names the adler32 flag before the --cksum flag: the resolver
\* returned the --cksum option.
C16_Witness ==
    /\ call.fn = "_resolve_checksum_option" /\ call.rcode = 0
    /\ call.output = T_adler \o <<" ">> \o T_cksum
    /\ result = Some("--cksum adler32:print")

\* The help text names the md5 flag only: the resolver returned the empty string.
C16_WitnessMd5 ==
    /\ call.fn = "_resolve_checksum_option" /\ call.rcode = 0
    /\ call.output = T_opt_md5
    /\ result = Some("")

\* get_file_info_from_output called on a text: on a line written as
\*   <type>: <checksum> <ignored> <size>
\* or on a text that is empty or has none of the markers.

DigitChar(d) ==
    CASE d = 0 -> "0" [] d = 1 -> "1" [] d = 2 -> "2" [] d = 3 -> "3"
      [] d = 4 -> "4" [] d = 5 -> "5" [] d = 6 -> "6" [] d = 7 -> "7"
      [] d = 8 -> "8" [] d = 9 -> "9"

\* the decimal digits of a non-negative integer
RECURSIVE str(_)
str(n) ==
    IF n < 10 THEN <<DigitChar(n)>>
    ELSE str(n \div 10) \o <<DigitChar(n % 10)>>

FormatLine(t, c, ignored, s) ==
    t \o <<":", " ">> \o c \o <<" ">> \o ignored \o <<" ">> \o str(s)

\* c padded on the left with zeros to 8 characters
PadLeft8(c) == [i \in 1..8 |-> IF i <= 8 - Len(c) THEN "0" ELSE c[i - (8 - Len(c))]]

\* Checksum values: the prefixes, of 1 to 8 characters, of three hex words.
HexWords ==
    {<<"1", "a", "2", "b", "3", "c", "4", "d">>,
     <<"0", "0", "0", "0", "0", "0", "0", "1">>,
     <<"F", "f", "E", "9", "0", "A", "b", "7">>}
Checksums == {SubSeq(w, 1, n) : w \in HexWords, n \in 1..8}
\* Checksum values of more than 8 characters: of 9, and the 32 of an md5 sum.
LongChecksums ==
    {<<"1", "a", "2", "b", "3", "c", "4", "d", "5">>,
     <<"d", "4", "1", "d", "8", "c", "d", "9", "8", "f", "0", "0", "b", "2", "0", "4",
       "e", "9", "8", "0", "0", "9", "9", "8", "e", "c", "f", "8", "4", "2", "7", "e">>}
ChecksumTypes == {T_adler32, T_md5}
IgnoredTokens == {<<"x">>, T_XRootD, <<"1", "a", "2", "b", "3", "c", "4", "d">>}
Sizes == {0, 7, 10, 1000000, 2147483647}

\* Texts that are empty or have none of the markers.
T_md5_line == T_md5 \o <<":", " ", "a", "b", " ", "x", " ", "1">>
RawOutputs == {<<>>, <<" ">>, O_plain, T_nospace, T_md5_line}

InitParse ==
    /\ Idle
    /\ script = NoScript
    /\ \/ \E t \in ChecksumTypes, c \in Checksums, g \in IgnoredTokens, s \in Sizes :
            call = [fn |-> "get_file_info_from_output", form |-> "line",
                    t |-> t, c |-> c, ignored |-> g, s |-> s,
                    output |-> FormatLine(t, c, g, s)]
       \/ \E t \in ChecksumTypes, c \in LongChecksums, g \in IgnoredTokens, s \in Sizes :
            call = [fn |-> "get_file_info_from_output", form |-> "long line",
                    t |-> t, c |-> c, ignored |-> g, s |-> s,
                    output |-> FormatLine(t, c, g, s)]
       \/ \E o \in RawOutputs :
            call = [fn |-> "get_file_info_from_output", form |-> "raw",
                    t |-> <<>>, c |-> <<>>, ignored |-> <<>>, s |-> 0,
                    output |-> o]
    /\ result = None

ParseReturns ==
    /\ call.fn = "get_file_info_from_output"
    /\ Returns(get_file_info_from_output(call.output))

SpecParse == InitParse /\ [][ParseReturns]_vars

HasMarker(output) ==
    \/ Contains(output, T_xrootd)
    \/ Contains(output, T_XRootD)
    \/ Contains(output, T_adler32)

\* C18: parsing the line '<t>: <c> <ignored> <s>', for a checksum c of 1 to 8
\* hex characters, a type t of adler32 and md5, one non-blank ignored token
\* and a size s >= 0, yields (s, c padded with zeros to 8 characters, t).
C18_ParserRoundTrip ==
    (result # None /\ call.form = "line")
        => result[1] = <<Some(call.s), Some(PadLeft8(call.c)), Some(call.t)>>

\* The round trip of the lines that carry one of the markers.
C18_RoundTripWithMarker ==
    (result # None /\ call.form = "line" /\ HasMarker(call.output))
        => result[1] = <<Some(call.s), Some(PadLeft8(call.c)), Some(call.t)>>

\* C19: for the empty text and for a text with none of the markers 'xrootd',
\* 'XRootD', 'adler32' the parser returns the triple (size, checksum,
\* checksumType) with all three components absent.
C19_AllAbsentTriple ==
    (result # None /\ ~HasMarker(call.output))
        => result[1] = <<None, None, None>>

\* get_timeout called on a file size.

\* the bytes below 10^6 of the sizes: the ends of the two halves
ByteParts == {0, 1, 499999, 500000, 999999}

FileSizes ==
    {f \in [neg : BOOLEAN, mb : 0..MaxMB, b : ByteParts] :
        f.neg => (f.mb > 0 \/ f.b > 0)}

InitTimeout ==
    /\ Idle
    /\ script = NoScript
    /\ \E f \in FileSizes : call = [fn |-> "get_timeout", filesize |-> f]
    /\ result = None

TimeoutReturns ==
    /\ call.fn = "get_timeout"
    /\ Returns(get_timeout(call.filesize))

SpecTimeout == InitTimeout /\ [][TimeoutReturns]_vars

\* f + d for sizes f >= 0 and d >= 0
Plus(f, d) ==
    [neg |-> FALSE,
     mb |-> f.mb + d.mb + ((f.b + d.b) \div 1000000),
     b |-> (f.b + d.b) % 1000000]

\* the amounts a size is compared with: a byte more, half a megabyte more or
\* a byte less than that, a megabyte more, and beyond the largest size
Increments ==
    {[neg |-> FALSE, mb |-> m, b |-> b] :
        m \in {0, 1, MaxMB}, b \in {0, 1, 499999, 500000}}

\* C20: for every file size f >= 0 the estimate is at least 300 and at most
\* 10800, and the estimate of a larger size is never smaller.
C20_TimeoutBoundedMonotone ==
    (result # None /\ ~call.filesize.neg) =>
        /\ 300 <= result[1] /\ result[1] <= 10800
        /\ \A d \in Increments :
               result[1] <= get_timeout(Plus(call.filesize, d))

\* A size of 5250999999 bytes, beyond the 5250000000 bytes at which the
\* estimate reaches three hours: the estimate is 10800.
C20_Witness ==
    /\ call.fn = "get_timeout"
    /\ call.filesize = [neg |-> FALSE, mb |-> 5250, b |-> 999999]
    /\ result = Some(10800)

\* the estimate of a size of 1 byte is 300, of 500000 bytes 301
C20_WitnessSmall ==
    /\ call.fn = "get_timeout"
    /\ call.filesize = [neg |-> FALSE, mb |-> 0, b |-> 500000]
    /\ result = Some(301)

max(a, b) == IF b > a THEN b ELSE a

\* C21: for every integer file size, negative ones included, the estimate is
\* max(300, min(10800, 300 + filesize / 500000)) with the quotient truncated
\* to an integer: it is never below 300 and never above 10800.
C21_TimeoutFloorAndCeiling ==
    result # None =>
        /\ result[1] = max(300, min(10800, 300 + IntOfQuotient(call.filesize)))
        /\ 300 <= result[1] /\ result[1] <= 10800

\* The ceiling alone, for every size.
C21_CeilingHolds ==
    result # None => result[1] <= 10800

\* C22: for every file that is transferred, in copy_in and in copy_out, the
\* timeout estimate of the file's size has been computed when its copy
\* command is executed.
C22_TimeoutComputedBeforeCopy ==
    \A j \in DOMAIN cmds : cmds[j].timeout # None

\* C23: a file that copy_in marks failed carries the code of the exception
\* _stagefile raised when that is a PilotException, and STAGEINFAILED when it
\* is another exception; the event sent for it and the exception copy_in
\* raises for it carry the exception's detail, or '(consult log)' for
\* another exception; the exception copy_in raises is a PilotException with
\* that code and state 'STAGEIN_ATTEMPT_FAILED'.
C23_StageInFailureCodes ==
    op = "copy_in" =>
        /\ \A i \in Files : files[i].status = "failed" =>
               /\ stage.file = i /\ stage.exc # NoError
               /\ files[i].status_code =
                      IF stage.exc.type = "PilotException" THEN stage.exc.code
                      ELSE STAGEINFAILED
               /\ \A j \in DOMAIN sent : sent[j].file = i =>
                      /\ sent[j].event.clientState = "STAGEIN_ATTEMPT_FAILED"
                      /\ sent[j].event.stateReason =
                             IF stage.exc.type = "PilotException"
                             THEN stage.exc.message ELSE "(consult log)"
        /\ (pc = "raised" /\ raised.site = "xrdcp.py:176") =>
               /\ files[stage.file].status = "failed"
               /\ raised.type = "PilotException"
               /\ raised.state = "STAGEIN_ATTEMPT_FAILED"
               /\ raised.code = files[stage.file].status_code
               /\ raised.message = IF stage.exc.type = "PilotException"
                                   THEN stage.exc.message ELSE "(consult log)"
        /\ (pc = "raised" /\ StageFailed /\ raised.site # "trace_report") =>
               raised.site = "xrdcp.py:176"

\* copy_in raised for a file whose copy command failed for lack of space:
\* the file carries the classifier's code, not the fallback.
C23_Witness ==
    /\ op = "copy_in" /\ pc = "raised" /\ raised.site = "xrdcp.py:176"
    /\ stage.exc.type = "PilotException"
    /\ files[stage.file].status_code = NOLOCALSPACE
    /\ raised.code = NOLOCALSPACE

\* copy_in raised for a file whose _stagefile call ended in a ValueError.
C23_WitnessOther ==
    /\ op = "copy_in" /\ pc = "raised" /\ raised.site = "xrdcp.py:176"
    /\ stage.exc.type = "ValueError"
    /\ files[stage.file].status_code = STAGEINFAILED
    /\ raised.message = "(consult log)"

\* the parser matched: it returned a triple with a checksum
Matched == result # None /\ Len(result[1]) = 3 /\ result[1][2] # None

\* C24 as stated: whenever the parser matches, the checksum it returns is
\* exactly 8 characters long, whatever the length of the matched token.
C24_ChecksumIsEightLong ==
    Matched => Len(result[1][2][1]) = 8

\* C24 as amended: whenever the parser matches, the checksum it returns is at
\* least 8 characters long: a token of fewer than 8 characters is padded on
\* the left with zeros to exactly 8, a token of 8 characters or more is
\* returned as it is.
C24_ChecksumIsPaddedToEight ==
    Matched =>
        LET checksum == result[1][2][1]
            pad == Len(checksum) - Len(call.c)
        IN  /\ Len(checksum) >= 8
            /\ pad >= 0
            /\ \A i \in 1..pad : checksum[i] = "0"
            /\ SubSeq(checksum, pad + 1, Len(checksum)) = call.c
            /\ Len(call.c) <= 8 => Len(checksum) = 8
            /\ Len(call.c) > 8 => checksum = call.c

\* A token of three characters was matched and returned with five zeros
\* before it.
C24_Witness ==
    /\ Matched /\ Len(call.c) = 3
    /\ result[1][2][1] = <<"0", "0", "0", "0", "0">> \o call.c

\* A token of 32 characters was matched and returned as it is.
C24_WitnessLong ==
    /\ Matched /\ Len(call.c) = 32 /\ result[1][2][1] = call.c

\* C25: _stagefile calls the parser exactly when the copy command exited
\* with zero and the resolved option is not empty.  With an empty option and
\* a zero exit the call completes without calling the parser and without an
\* exception, whatever the command printed.
C25_ParserOnlyWithOption ==
    stage.file # 0 =>
        /\ stage.parsed <=> (stage.rcode = 0 /\ coption # "")
        /\ stage.parsed <=> stage.info # None
        /\ (stage.rcode = 0 /\ coption = "") =>
               /\ stage.exc = NoError
               /\ stage.info = None

\* With an empty option the command exited with zero and printed a checksum
\* line: the parser was not called.
C25_Witness ==
    /\ stage.file # 0 /\ coption = "" /\ stage.rcode = 0
    /\ stage.stdout = O_adler32
    /\ ~stage.parsed /\ stage.exc = NoError

\* With an empty option the command exited with zero and printed nothing.
C25_WitnessEmpty ==
    /\ stage.file # 0 /\ coption = "" /\ stage.rcode = 0
    /\ stage.stdout = <<>>
    /\ ~stage.parsed /\ stage.exc = NoError

\* the events sent for the i-th file
SendsOf(i) == {j \in DOMAIN sent : sent[j].file = i}

\* C28: when a batch call ends, exactly one event has been sent for each file
\* it processed (accessed directly, transferred, or failed), the events are
\* in input order, and none has been sent for a file after the one the call
\* aborted at.  Stated for the calls in which no trace call raised.
C28_OneEventPerProcessedFile ==
    (/\ pc \in {"returned", "raised"}
     /\ raised.site # "trace_report" /\ caught.site # "trace_report")
        => /\ \A i \in Files :
                  Cardinality(SendsOf(i)) =
                      IF pc = "returned" \/ i <= idx THEN 1 ELSE 0
           /\ \A j \in 1..(Len(sent) - 1) : sent[j].file < sent[j + 1].file

\* What holds of every call at every moment: at most one event for a file,
\* events in input order, and none for a file the loop has not reached.
C28_AtMostOneEventInOrder ==
    /\ \A i \in Files : Cardinality(SendsOf(i)) <= 1
    /\ \A j \in 1..(Len(sent) - 1) : sent[j].file < sent[j + 1].file
    /\ \A j \in DOMAIN sent : sent[j].file <= idx

\* The claim for copy_in alone, in the calls in which no trace call raised.
C28_StageInOneEvent ==
    op = "copy_in" => C28_OneEventPerProcessedFile

\* ------------------------------------------------------ the stage-in script

TRANSFER_ERROR == 12

T_error_code == <<"e", "r", "r", "o", "r", " ", "c", "o", "d", "e", ":", " ">>
T_details == <<"d", "e", "t", "a", "i", "l", "s", ":", " ">>
T_PilotExceptionOpen == <<"[", "P", "i", "l", "o", "t", "E", "x", "c", "e", "p", "t", "i", "o", "n", "(">>

\* str.replace(old, ''): every occurrence of old removed, from the left
RECURSIVE remove(_, _)
remove(s, old) ==
    IF Len(s) < Len(old) \/ Len(old) = 0 THEN s
    ELSE IF SubstrAt(s, old, 1) THEN remove(SubSeq(s, Len(old) + 1, Len(s)), old)
    ELSE <<s[1]>> \o remove(SubSeq(s, 2, Len(s)), old)

\* str.strip(): the whitespace at both ends removed
strip(s) ==
    LET keep == {i \in 1..Len(s) : s[i] \notin Whitespace}
    IN  IF keep = {} THEN <<>>
        ELSE SubSeq(s, Min(keep), CHOOSE j \in keep : \A k \in keep : k <= j)

\* re.search('error code: (\d+)', err): the group, or None
search_code(err) ==
    LET a(i) == i + Len(T_error_code)
        hits == {i \in 1..Len(err) :
                    /\ SubstrAt(err, T_error_code, i)
                    /\ a(i) <= Len(err) /\ err[a(i)] \in Digits}
    IN  IF hits = {} THEN None
        ELSE Some(SubSeq(err, a(Min(hits)), RunEndIn(err, a(Min(hits)), Digits)))

\* re.search('details: (.+)', err): the group, up to the end of the line, or None
search_details(err) ==
    LET a(i) == i + Len(T_details)
        hits == {i \in 1..Len(err) :
                    /\ SubstrAt(err, T_details, i)
                    /\ a(i) <= Len(err) /\ err[a(i)] # "\n"}
    IN  IF hits = {} THEN None
        ELSE Some(SubSeq(err, a(Min(hits)), RunEndNotIn(err, a(Min(hits)), {"\n"})))

\* A value that is an int in one place and a str in another.
IntValue(n) == [int |-> n]
StrValue(s) == [str |-> s]

\* The pair (error_code, error_message): the code is the int 0 or the matched
\* digits as a string, the message the matched details or the empty string.
extract_error_info(err) ==
    LET _code == search_code(err)
        _msg == search_details(err)
    IN  [error_code |-> IF _code # None THEN StrValue(_code[1]) ELSE IntValue(0),
         error_message |-> IF _msg # None
                           THEN strip(remove(_msg[1], T_PilotExceptionOpen))
                           ELSE <<>>]

\* dictionary[key] = [value1, value2]
add_to_dictionary(dictionary, key, value1, value2) ==
    [k \in DOMAIN dictionary \cup {key} |->
        IF k = key THEN <<value1, value2>> ELSE dictionary[k]]

\* What --lfns and --scopes split into: lists of one element or more.
LfnNames == {"a", "b"}
LfnLists == UNION {[1..n -> LfnNames] : n \in 1..MaxLfns}
ScopeLists == UNION {[1..n -> {"s"}] : n \in 1..MaxLfns}

\* str(e) of the exceptions client.transfer may raise: with a code and
\* details, with details in a PilotException wrapper, without details,
\* and empty.
E_full == <<"e", "r", "r", "o", "r", " ", "c", "o", "d", "e", ":", " ", "1", "0", "9", "9", ",", " ", "d", "e", "t", "a", "i", "l", "s", ":", " ", "n", "o", " ", "r", "e", "p", "l", "i", "c", "a">>
E_wrapped == <<"d", "e", "t", "a", "i", "l", "s", ":", " ", "[", "P", "i", "l", "o", "t", "E", "x", "c", "e", "p", "t", "i", "o", "n", "(", "n", "o", " ", "r", "e", "p", "l", "i", "c", "a", " ">>
E_plain == <<"b", "o", "o", "m">>
ErrTexts == {E_full, E_wrapped, E_plain, <<>>}

\* How client.transfer(xfiles, ...) may end: it returns with the file
\* transferred or accessed directly, or it raises with the file failed or
\* not touched.
TransferOutcomes ==
    {[raised |-> FALSE, text |-> <<>>, status |-> Some(st), status_code |-> 0] :
        st \in {"transferred", "remote_io"}}
    \cup {[raised |-> TRUE, text |-> t, status |-> Some("failed"),
           status_code |-> STAGEINFAILED] : t \in ErrTexts}
    \cup {[raised |-> TRUE, text |-> t, status |-> None, status_code |-> 0] :
           t \in ErrTexts}

\* list(zip(lfns, scopes)) has as many pairs as the shorter list
NumPairs == min(Len(script.lfns), Len(script.scopes))

\* the variables of the script before the loop
InitScript ==
    /\ Idle
    /\ call = NoCall
    /\ result = None
    /\ \E l \in LfnLists, sc \in ScopeLists :
         script = [pc |-> "loop", lfns |-> l, scopes |-> sc, i |-> 1,
                   err |-> <<>>, errcode |-> IntValue(0), xfiles |-> <<>>,
                   transfers |-> <<>>, file_dictionary |-> <<>>, exit |-> None]

UnchangedByScript ==
    UNCHANGED <<call, result, op, allow_direct_access, files, files0, idx, pc,
                coption, localsite, trace, sent, cmds, probes, da_evaluated,
                stage, caught, raised, returned, clock>>

\* One pass of the loop: a list of one FileSpec for the pair, and the call
\* of client.transfer inside try ... except Exception.
ScriptTransfer ==
    /\ script.pc = "loop"
    /\ script.i <= NumPairs
    /\ \E o \in TransferOutcomes :
         LET name == script.lfns[script.i]
             fspec == [lfn |-> name, scope |-> script.scopes[script.i],
                       status |-> o.status, status_code |-> o.status_code]
         IN  script' = [script EXCEPT
                 !.xfiles = <<fspec>>,
                 !.err = IF o.raised THEN o.text ELSE @,
                 !.errcode = IF o.raised THEN IntValue(0 - 1) ELSE @,
                 !.transfers = Append(@, [lfn |-> name, raised |-> o.raised,
                                          text |-> o.text]),
                 !.i = @ + 1]
    /\ UnchangedByScript

\* for fspec in xfiles: add_to_dictionary(file_dictionary, fspec.lfn, ...)
RECURSIVE add_files(_, _)
add_files(dictionary, xfiles) ==
    IF xfiles = <<>> THEN dictionary
    ELSE add_files(add_to_dictionary(dictionary, Head(xfiles).lfn,
                                     Head(xfiles).status, Head(xfiles).status_code),
                   Tail(xfiles))

\* After the loop: the dictionary of the files of xfiles, the error entry,
\* write_json and the exit.
ScriptFinish ==
    /\ script.pc = "loop"
    /\ script.i > NumPairs
    /\ LET e == IF script.err # <<>> THEN extract_error_info(script.err)
                ELSE [error_code |-> script.errcode, error_message |-> script.err]
           file_dictionary ==
               add_to_dictionary(add_files(<<>>, script.xfiles), "error",
                                 e.error_message, e.error_code)
       IN  script' = [script EXCEPT
               !.pc = "exited",
               !.err = e.error_message,
               !.errcode = e.error_code,
               !.file_dictionary = file_dictionary,
               !.exit = Some(IF e.error_message # <<>> THEN TRANSFER_ERROR ELSE 0)]
    /\ UnchangedByScript

NextScript == ScriptTransfer \/ ScriptFinish

SpecStagein == InitScript /\ [][NextScript]_vars

\* the transfers that raised
Raised == {k \in DOMAIN script.transfers : script.transfers[k].raised}

\* C26: the dictionary the script writes has an entry [status, status_code]
\* for every LFN a transfer was attempted for, and the 'error' entry.
C26_DictionaryHasEveryLfn ==
    script.pc = "exited" =>
        /\ "error" \in DOMAIN script.file_dictionary
        /\ \A k \in DOMAIN script.transfers :
               /\ script.transfers[k].lfn \in DOMAIN script.file_dictionary
               /\ Len(script.file_dictionary[script.transfers[k].lfn]) = 2

\* What the dictionary has: the 'error' entry and the entry of the LFN of
\* the last pass of the loop, with the status and code of its FileSpec.
C26_DictionaryHasLastLfn ==
    script.pc = "exited" =>
        /\ DOMAIN script.file_dictionary =
               {"error"} \cup {script.xfiles[n].lfn : n \in DOMAIN script.xfiles}
        /\ script.transfers # <<>> =>
               /\ Len(script.xfiles) = 1
               /\ script.xfiles[1].lfn = script.transfers[Len(script.transfers)].lfn
               /\ script.file_dictionary[script.xfiles[1].lfn] =
                      <<script.xfiles[1].status, script.xfiles[1].status_code>>

\* C27: the script attempts the transfer of every pair, also after one that
\* raised, and exits with TRANSFER_ERROR if and only if a transfer raised,
\* otherwise with 0: whatever the text of the exception.
C27_ExitCodeTellsFailure ==
    script.pc = "exited" =>
        /\ Len(script.transfers) = NumPairs
        /\ \A k \in DOMAIN script.transfers :
               script.transfers[k].lfn = script.lfns[k]
        /\ script.exit = Some(TRANSFER_ERROR) <=> Raised # {}
        /\ Raised = {} => script.exit = Some(0)

\* What holds: every pair is attempted, in order, whatever raised before.
C27_EveryPairAttempted ==
    /\ script.pc = "exited" =>
           /\ Len(script.transfers) = NumPairs
           /\ \A k \in DOMAIN script.transfers :
                  script.transfers[k].lfn = script.lfns[k]
    /\ script.pc = "loop" => Len(script.transfers) = script.i - 1

\* What holds: the exit code is TRANSFER_ERROR exactly when the text of the
\* last exception has details that are not blank, and 0 otherwise.
C27_ExitCodeFollowsDetails ==
    script.pc = "exited" =>
        /\ script.exit \in {Some(0), Some(TRANSFER_ERROR)}
        /\ script.exit = Some(TRANSFER_ERROR) <=>
               /\ Raised # {}
               /\ LET last == CHOOSE k \in Raised : \A n \in Raised : n <= k
                  IN  script.transfers[last].text \in {E_full, E_wrapped}
        /\ script.exit = Some(TRANSFER_ERROR) =>
               script.err = <<"n", "o", " ", "r", "e", "p", "l", "i", "c", "a">>

====
